---- MODULE Spec2Model ----
(***************************************************************************)
(* Todo lists: the validation and ordering utilities (todos/utils.py), the *)
(* request handlers over the session (app.py), the session-backed and the  *)
(* database-backed persistence providers, and the connection handling of   *)
(* the database provider.                                                  *)
(*                                                                         *)
(* A title is a sequence of character codes, so that len(), lower(),       *)
(* strip() and the comparison of strings are computed, not assumed.        *)
(***************************************************************************)
EXTENDS Integers, Sequences, FiniteSets, TLC

VARIABLES
    uin,        \* utilities: the arguments of the call under study
    uout,       \* utilities: the results of the successive applications
    session,    \* app.py: session["lists"]
    nextUuid,   \* app.py / SessionPersistence: the next fresh uuid4 token
    last,       \* the last request handled / operation applied, with its outcome
    store,      \* SessionPersistence: self.session['lists']
    dbLists,    \* DatabasePersistence: rows of table lists, in storage order
    dbTodos,    \* DatabasePersistence: rows of table todos, in storage order
    listSeq,    \* DatabasePersistence: next value of the lists.id sequence
    todoSeq,    \* DatabasePersistence: next value of the todos.id sequence
    call,       \* DatabasePersistence: the operation in progress or last finished
    pc,         \* DatabasePersistence: position in the operation in progress
    connection, \* _database_connect: the local variable connection
    openConns,  \* number of connections of the process that are open
    proc,       \* "running", or "exited" once sys.exit was called
    snapshots   \* the contents the tables had during the read in progress

vars == <<uin, uout, session, nextUuid, last, store, dbLists, dbTodos,
          listSeq, todoSeq, call, pc, connection, openConns, proc, snapshots>>

-----------------------------------------------------------------------------
(* Bounds of the model *)

MaxLists == 2
MaxTodos == 2
MaxUuid == 3
MaxItems == 3
MaxRows == 4
MaxDbRows == 3
MaxRaces == 2

-----------------------------------------------------------------------------
(* Strings *)

\* Python's None where a dict is expected, where a str is expected, where an id is expected
None == [none |-> TRUE]
NoError == "None"
NoId == 0

\* the upper bound of utils.py:9 and utils.py:18
MaxTitleLen == 100

\* the character codes used below: 32 is ' ', 65 'A', 66 'B', 97 'a', 98 'b'
is_space(c) == c = 32

Repeat(c, n) == [i \in 1..n |-> c]

\* str.lower() on one character: A-Z map to a-z
lower_char(c) == IF c >= 65 /\ c <= 90 THEN c + 32 ELSE c

\* str.lower()
lower(s) == [i \in 1..Len(s) |-> lower_char(s[i])]

\* Python's < on str: lexicographic on code points, a proper prefix is smaller
RECURSIVE str_less(_, _)
str_less(a, b) ==
    IF b = <<>> THEN FALSE
    ELSE IF a = <<>> THEN TRUE
    ELSE IF Head(a) < Head(b) THEN TRUE
    ELSE IF Head(a) > Head(b) THEN FALSE
    ELSE str_less(Tail(a), Tail(b))

RECURSIVE lstrip(_)
lstrip(s) == IF s # <<>> /\ is_space(Head(s)) THEN lstrip(Tail(s)) ELSE s

RECURSIVE rstrip(_)
rstrip(s) ==
    IF s # <<>> /\ is_space(s[Len(s)]) THEN rstrip(SubSeq(s, 1, Len(s) - 1)) ELSE s

\* str.strip()
strip(s) == rstrip(lstrip(s))

-----------------------------------------------------------------------------
(* todos/utils.py *)

ErrUnique == "Title must be unique."
ErrLength == "Title must be between 1 and 100 characters."

\* any(lst["title"] == title for lst in lists)
RECURSIVE any_title_equal(_, _)
any_title_equal(title, lists) ==
    IF lists = <<>> THEN FALSE
    ELSE IF Head(lists).title = title THEN TRUE
    ELSE any_title_equal(title, Tail(lists))

length_in_range(title) == 1 <= Len(title) /\ Len(title) <= MaxTitleLen

error_for_list_title_LengthFirst(title, lists) ==
    IF ~length_in_range(title) THEN ErrLength
    ELSE IF any_title_equal(title, lists) THEN ErrUnique
    ELSE NoError

error_for_list_title(title, lists) ==
    IF any_title_equal(title, lists) THEN ErrUnique
    ELSE IF ~length_in_range(title) THEN ErrLength
    ELSE NoError

error_for_todo(title) ==
    IF ~length_in_range(title) THEN ErrLength ELSE NoError

\* next((lst for lst in todo_lists if lst['id'] == todo_lst_id), None)
RECURSIVE find_todo_list_by_id(_, _)
find_todo_list_by_id(todo_lst_id, todo_lists) ==
    IF todo_lists = <<>> THEN None
    ELSE IF Head(todo_lists).id = todo_lst_id THEN Head(todo_lists)
    ELSE find_todo_list_by_id(todo_lst_id, Tail(todo_lists))

RECURSIVE find_in_todos(_, _)
find_in_todos(todo_id, todos) ==
    IF todos = <<>> THEN None
    ELSE IF Head(todos).id = todo_id THEN Head(todos)
    ELSE find_in_todos(todo_id, Tail(todos))

find_todo_by_id(todo_id, todo_list) == find_in_todos(todo_id, todo_list.todos)

\* [x for x in seq if x["id"] != id]
RECURSIVE without_id(_, _)
without_id(id, seq) ==
    IF seq = <<>> THEN <<>>
    ELSE IF Head(seq).id # id THEN <<Head(seq)>> \o without_id(id, Tail(seq))
    ELSE without_id(id, Tail(seq))

\* the todo list after delete_todo_by_id(todo_id, todo_lst)
delete_todo_by_id(todo_id, todo_lst) ==
    [todo_lst EXCEPT !.todos = without_id(todo_id, todo_lst.todos)]

\* the todo list after mark_all_todos_completed(todo_lst)
mark_all_todos_completed(todo_lst) ==
    [todo_lst EXCEPT !.todos =
        [i \in 1..Len(todo_lst.todos) |->
            [todo_lst.todos[i] EXCEPT !.completed = ~todo_lst.todos[i].completed]]]

delete_todo_list_by_id(todo_list_id, todo_lists) ==
    without_id(todo_list_id, todo_lists)

\* sum(1 for todo in todo_lst["todos"] if not todo["completed"])
RECURSIVE count_not_completed(_)
count_not_completed(todos) ==
    IF todos = <<>> THEN 0
    ELSE (IF ~Head(todos).completed THEN 1 ELSE 0) + count_not_completed(Tail(todos))

todos_remaining(todo_lst) == count_not_completed(todo_lst.todos)

is_list_completed_NoLenCheck(todo_lst) == todos_remaining(todo_lst) = 0

is_list_completed(todo_lst) ==
    Len(todo_lst.todos) > 0 /\ todos_remaining(todo_lst) = 0

is_todo_completed(todo) == todo.completed

\* the Callable handed to sort_items, by name
select(select_completed, item) ==
    IF select_completed = "is_list_completed" THEN is_list_completed(item)
    ELSE is_todo_completed(item)

sort_key(item) == lower(item.title)

\* one step of the stable sort: item goes before the first element whose key is greater
RECURSIVE insert_sorted(_, _)
insert_sorted(done, item) ==
    IF done = <<>> THEN <<item>>
    ELSE IF str_less(sort_key(item), sort_key(Head(done))) THEN <<item>> \o done
    ELSE <<Head(done)>> \o insert_sorted(Tail(done), item)

RECURSIVE sorted_from(_, _)
sorted_from(done, items) ==
    IF items = <<>> THEN done
    ELSE sorted_from(insert_sorted(done, Head(items)), Tail(items))

\* a sort that is not stable: item goes before the first element whose key is not smaller
RECURSIVE insert_sorted_Unstable(_, _)
insert_sorted_Unstable(done, item) ==
    IF done = <<>> THEN <<item>>
    ELSE IF ~str_less(sort_key(Head(done)), sort_key(item)) THEN <<item>> \o done
    ELSE <<Head(done)>> \o insert_sorted_Unstable(Tail(done), item)

RECURSIVE sorted_from_Unstable(_, _)
sorted_from_Unstable(done, items) ==
    IF items = <<>> THEN done
    ELSE sorted_from_Unstable(insert_sorted_Unstable(done, Head(items)), Tail(items))

sorted_by_title_Unstable(items) == sorted_from_Unstable(<<>>, items)

\* sorted(items, key=lambda item: item["title"].lower())
sorted_by_title(items) == sorted_from(<<>>, items)

RECURSIVE keep(_, _, _)
keep(items, select_completed, want) ==
    IF items = <<>> THEN <<>>
    ELSE IF select(select_completed, Head(items)) = want
         THEN <<Head(items)>> \o keep(Tail(items), select_completed, want)
         ELSE keep(Tail(items), select_completed, want)

sort_items(items, select_completed) ==
    LET ordered == sorted_by_title(items)
    IN  keep(ordered, select_completed, FALSE) \o keep(ordered, select_completed, TRUE)

-----------------------------------------------------------------------------
(* State shared by the specifications below: each one moves its own variables
   and leaves the others at these values. *)

NoCall == [fn |-> "none", title |-> <<>>, lists |-> <<>>, items |-> <<>>,
           select_completed |-> "none"]

NoRequest == [op |-> "none", status |-> "none", list_id |-> NoId, error |-> NoError]

\* an operation of the database provider: its name and arguments, the exception
\* raised in it and where, the rows fetched so far and the value returned
NoOperation ==
    [op |-> "none", title |-> <<>>, list_id |-> NoId, todo_id |-> NoId, completed |-> FALSE,
     unit |-> "none", exc |-> "none", raised_at |-> "none", fetched |-> <<>>,
     rows |-> <<>>, k |-> 0, result |-> <<>>, returned |-> FALSE]

Operation(op, title, list_id, todo_id, completed) ==
    [NoOperation EXCEPT !.op = op, !.title = title, !.list_id = list_id,
                        !.todo_id = todo_id, !.completed = completed, !.unit = "main"]

utilVars == <<uin, uout>>
appVars == <<session, nextUuid>>
storeVars == <<store, dbLists, dbTodos, listSeq, todoSeq>>
connVars == <<call, pc, connection, openConns, proc, snapshots>>

UtilIdle == uin = NoCall /\ uout = <<>>
AppIdle == session = <<>> /\ nextUuid = 1
StoreIdle == store = <<>> /\ dbLists = <<>> /\ dbTodos = <<>> /\ listSeq = 1 /\ todoSeq = 1
ConnIdle ==
    /\ call = NoOperation /\ pc = "idle" /\ connection = "None" /\ openConns = 0
    /\ proc = "running" /\ snapshots = {}

-----------------------------------------------------------------------------
(* The utilities as pure functions: the arguments are drawn from bounded sets
   and the actions apply the function. *)

SeqsUpTo(S, n) == UNION {[1..k -> S] : k \in 0..n}

TitleEmpty == <<>>
TitleA == <<97>>
TitleUpperA == <<65>>
TitleUpperB == <<66>>
TitleAB == <<97, 98>>
TitleMax == Repeat(98, MaxTitleLen)
TitleTooLong == Repeat(98, MaxTitleLen + 1)

UtilTitles == {TitleEmpty, TitleA, TitleUpperA, TitleAB, TitleMax, TitleTooLong}
SortTitles == {TitleA, TitleUpperA, TitleUpperB, TitleAB}

\* records get the position in the sequence as id
TodosOf(seq) ==
    [i \in 1..Len(seq) |-> [id |-> i, title |-> seq[i].title, completed |-> seq[i].completed]]
ListsOf(seq) ==
    [i \in 1..Len(seq) |-> [id |-> i, title |-> seq[i].title, todos |-> TodosOf(seq[i].todos)]]

UtilTodoSeqs == {TodosOf(s) : s \in SeqsUpTo([title : SortTitles, completed : BOOLEAN], MaxItems)}
UtilFlagSeqs == {TodosOf(s) : s \in SeqsUpTo([title : {TitleA}, completed : BOOLEAN], MaxItems)}
UtilTitledLists == {ListsOf(s) : s \in SeqsUpTo([title : UtilTitles, todos : {<<>>}], MaxLists)}
UtilListSeqs ==
    {ListsOf(s) : s \in SeqsUpTo([title : {TitleA, TitleUpperA, TitleUpperB},
                                  todos : {<<>>, <<[title |-> TitleA, completed |-> TRUE]>>,
                                           <<[title |-> TitleA, completed |-> FALSE]>>}],
                                 MaxLists)}

UtilCalls ==
    {[NoCall EXCEPT !.fn = "error_for_list_title", !.title = t, !.lists = ls] :
        t \in UtilTitles, ls \in UtilTitledLists}
    \cup {[NoCall EXCEPT !.fn = "is_list_completed", !.items = ts] : ts \in UtilFlagSeqs}
    \cup {[NoCall EXCEPT !.fn = "mark_all_todos_completed", !.items = ts] : ts \in UtilFlagSeqs}
    \cup {[NoCall EXCEPT !.fn = "sort_items", !.items = ts,
                         !.select_completed = "is_todo_completed"] : ts \in UtilTodoSeqs}
    \cup {[NoCall EXCEPT !.fn = "sort_items", !.items = ls,
                         !.select_completed = "is_list_completed"] : ls \in UtilListSeqs}

InitUtil ==
    /\ uin \in UtilCalls
    /\ uout = <<>>
    /\ AppIdle /\ StoreIdle /\ ConnIdle
    /\ last = NoRequest

UtilList == [id |-> 1, title |-> TitleA, todos |-> uin.items]

CallErrorForListTitle ==
    /\ uin.fn = "error_for_list_title" /\ uout = <<>>
    /\ uout' = <<error_for_list_title(uin.title, uin.lists)>>
    /\ UNCHANGED <<uin, appVars, storeVars, connVars, last>>

CallIsListCompleted ==
    /\ uin.fn = "is_list_completed" /\ uout = <<>>
    /\ uout' = <<[completed |-> is_list_completed(UtilList),
                  remaining |-> todos_remaining(UtilList)]>>
    /\ UNCHANGED <<uin, appVars, storeVars, connVars, last>>

CallMarkAllTodosCompleted ==
    /\ uin.fn = "mark_all_todos_completed" /\ uout = <<>>
    /\ uout' = <<mark_all_todos_completed(UtilList)>>
    /\ UNCHANGED <<uin, appVars, storeVars, connVars, last>>

\* sort_items on the arguments, then on its own result
CallSortItems ==
    /\ uin.fn = "sort_items" /\ Len(uout) < 2
    /\ uout' = Append(uout, sort_items(IF uout = <<>> THEN uin.items ELSE uout[Len(uout)],
                                       uin.select_completed))
    /\ UNCHANGED <<uin, appVars, storeVars, connVars, last>>

NextUtil ==
    \/ CallErrorForListTitle
    \/ CallIsListCompleted
    \/ CallMarkAllTodosCompleted
    \/ CallSortItems

SpecUtil == InitUtil /\ [][NextUtil]_vars

-----------------------------------------------------------------------------
(* app.py: the request handlers over session["lists"] *)

\* what the forms and URLs may carry
FormListTitles == {<<32>>, <<32, 97>>, TitleUpperA, TitleMax, TitleTooLong}
FormTodoTitles == {<<>>, <<97, 32>>, TitleUpperB}
Uuids == 1..MaxUuid

Response(op, status, list_id, error) ==
    [op |-> op, status |-> status, list_id |-> list_id, error |-> error]

\* lists with the first list of this id replaced (the handlers mutate it in place)
RECURSIVE with_list(_, _)
with_list(lists, lst) ==
    IF lists = <<>> THEN <<>>
    ELSE IF Head(lists).id = lst.id THEN <<lst>> \o Tail(lists)
    ELSE <<Head(lists)>> \o with_list(Tail(lists), lst)

RECURSIVE with_todo(_, _)
with_todo(todos, todo) ==
    IF todos = <<>> THEN <<>>
    ELSE IF Head(todos).id = todo.id THEN <<todo>> \o Tail(todos)
    ELSE <<Head(todos)>> \o with_todo(Tail(todos), todo)

new_list(id, title) == [id |-> id, title |-> title, todos |-> <<>>]
new_todo(id, title) == [id |-> id, title |-> title, completed |-> FALSE]

InitApp ==
    /\ session = <<>>
    /\ nextUuid = 1
    /\ last = NoRequest
    /\ UtilIdle /\ StoreIdle /\ ConnIdle

AppFrame == UNCHANGED <<utilVars, storeVars, connVars>>

\* require_list: NotFound when no list has the id
NotFoundList(op, list_id) ==
    /\ find_todo_list_by_id(list_id, session) = None
    /\ last' = Response(op, "404", list_id, NoError)
    /\ UNCHANGED appVars

get_lists ==
    /\ last' = Response("get_lists", "200", NoId, NoError)
    /\ UNCHANGED appVars
    /\ AppFrame

\* create_list, with the list stored although the title was refused
create_list_StoreAnyway(form) ==
    LET title == strip(form)
        error == error_for_list_title(title, session)
    IN  /\ Len(session) < MaxLists /\ nextUuid <= MaxUuid
        /\ session' = Append(session, new_list(nextUuid, title))
        /\ nextUuid' = nextUuid + 1
        /\ last' = Response("create_list", IF error # NoError THEN "200" ELSE "302", NoId, error)
        /\ AppFrame

create_list(form) ==
    LET title == strip(form)
        error == error_for_list_title(title, session)
    IN  /\ IF error # NoError
           THEN /\ last' = Response("create_list", "200", NoId, error)
                /\ UNCHANGED appVars
           ELSE /\ Len(session) < MaxLists /\ nextUuid <= MaxUuid
                /\ session' = Append(session, new_list(nextUuid, title))
                /\ nextUuid' = nextUuid + 1
                /\ last' = Response("create_list", "302", NoId, NoError)
        /\ AppFrame

\* update_list without the validation of the title
update_list_Unchecked(list_id, form) ==
    LET lst == find_todo_list_by_id(list_id, session)
        title == strip(form)
    IN  /\ \/ NotFoundList("update_list", list_id)
           \/ /\ lst # None
              /\ session' = with_list(session, [lst EXCEPT !.title = title])
              /\ UNCHANGED nextUuid
              /\ last' = Response("update_list", "302", list_id, NoError)
        /\ AppFrame

update_list(list_id, form) ==
    LET lst == find_todo_list_by_id(list_id, session)
        title == strip(form)
        error == error_for_list_title(title, session)
    IN  /\ \/ NotFoundList("update_list", list_id)
           \/ /\ lst # None
              /\ IF error # NoError
                 THEN /\ last' = Response("update_list", "200", list_id, error)
                      /\ UNCHANGED appVars
                 ELSE /\ session' = with_list(session, [lst EXCEPT !.title = title])
                      /\ UNCHANGED nextUuid
                      /\ last' = Response("update_list", "302", list_id, NoError)
        /\ AppFrame

delete_list(list_id) ==
    LET lst == find_todo_list_by_id(list_id, session)
    IN  /\ \/ NotFoundList("delete_list", list_id)
           \/ /\ lst # None
              /\ session' = delete_todo_list_by_id(list_id, session)
              /\ UNCHANGED nextUuid
              /\ last' = Response("delete_list", "302", list_id, NoError)
        /\ AppFrame

create_todo(list_id, form) ==
    LET lst == find_todo_list_by_id(list_id, session)
        todo_title == strip(form)
        error == error_for_todo(todo_title)
    IN  /\ \/ NotFoundList("create_todo", list_id)
           \/ /\ lst # None
              /\ IF error # NoError
                 THEN /\ last' = Response("create_todo", "200", list_id, error)
                      /\ UNCHANGED appVars
                 ELSE /\ Len(lst.todos) < MaxTodos /\ nextUuid <= MaxUuid
                      /\ session' = with_list(session,
                             [lst EXCEPT !.todos = Append(@, new_todo(nextUuid, todo_title))])
                      /\ nextUuid' = nextUuid + 1
                      /\ last' = Response("create_todo", "302", list_id, NoError)
        /\ AppFrame

\* display_list assigns the sorted todos to the list it was handed, a list of
\* the session; the session is saved with the response when the request marked
\* it modified, as taking pending flashed messages out of it does, and is
\* what it was for the next request otherwise
display_list(list_id) ==
    LET lst == find_todo_list_by_id(list_id, session)
    IN  /\ \/ NotFoundList("display_list", list_id)
           \/ /\ lst # None
              /\ \/ session' = with_list(session,
                        [lst EXCEPT !.todos = sort_items(@, "is_todo_completed")])
                 \/ session' = session
              /\ UNCHANGED nextUuid
              /\ last' = Response("display_list", "200", list_id, NoError)
        /\ AppFrame

edit_list(list_id) ==
    LET lst == find_todo_list_by_id(list_id, session)
    IN  /\ \/ NotFoundList("edit_list", list_id)
           \/ /\ lst # None
              /\ UNCHANGED appVars
              /\ last' = Response("edit_list", "200", list_id, NoError)
        /\ AppFrame

\* require_todo: require_list, then NotFound when the list has no todo of the id
NotFoundTodo(op, list_id, todo_id) ==
    \/ NotFoundList(op, list_id)
    \/ /\ find_todo_list_by_id(list_id, session) # None
       /\ find_todo_by_id(todo_id, find_todo_list_by_id(list_id, session)) = None
       /\ last' = Response(op, "404", list_id, NoError)
       /\ UNCHANGED appVars

toggle_todo_complete(list_id, todo_id, completed) ==
    LET lst == find_todo_list_by_id(list_id, session)
        todo == find_todo_by_id(todo_id, lst)
    IN  /\ \/ NotFoundTodo("toggle_todo_complete", list_id, todo_id)
           \/ /\ lst # None /\ todo # None
              /\ session' = with_list(session,
                     [lst EXCEPT !.todos = with_todo(@, [todo EXCEPT !.completed = completed])])
              /\ UNCHANGED nextUuid
              /\ last' = Response("toggle_todo_complete", "302", list_id, NoError)
        /\ AppFrame

delete_todo(list_id, todo_id) ==
    LET lst == find_todo_list_by_id(list_id, session)
        todo == find_todo_by_id(todo_id, lst)
    IN  /\ \/ NotFoundTodo("delete_todo", list_id, todo_id)
           \/ /\ lst # None /\ todo # None
              /\ session' = with_list(session, delete_todo_by_id(todo_id, lst))
              /\ UNCHANGED nextUuid
              /\ last' = Response("delete_todo", "302", list_id, NoError)
        /\ AppFrame

complete_all_todos(list_id) ==
    LET lst == find_todo_list_by_id(list_id, session)
    IN  /\ \/ NotFoundList("complete_all_todos", list_id)
           \/ /\ lst # None
              /\ session' = with_list(session, mark_all_todos_completed(lst))
              /\ UNCHANGED nextUuid
              /\ last' = Response("complete_all_todos", "302", list_id, NoError)
        /\ AppFrame

NextApp ==
    \/ get_lists
    \/ \E form \in FormListTitles : create_list(form)
    \/ \E list_id \in Uuids, form \in FormListTitles : update_list(list_id, form)
    \/ \E list_id \in Uuids : delete_list(list_id)
    \/ \E list_id \in Uuids, form \in FormTodoTitles : create_todo(list_id, form)
    \/ \E list_id \in Uuids : display_list(list_id)
    \/ \E list_id \in Uuids : edit_list(list_id)
    \/ \E list_id \in Uuids, todo_id \in Uuids, completed \in BOOLEAN :
          toggle_todo_complete(list_id, todo_id, completed)
    \/ \E list_id \in Uuids, todo_id \in Uuids : delete_todo(list_id, todo_id)
    \/ \E list_id \in Uuids : complete_all_todos(list_id)

SpecApp == InitApp /\ [][NextApp]_vars

-----------------------------------------------------------------------------
(* todos/session_persistence.py: each method as the value of self.session['lists']
   after the call *)

Session_all_lists(lists) == lists

Session_create_list(lists, id, title) == Append(lists, new_list(id, title))

\* a find_list that takes the first list for the one asked for
Session_find_list_First(lists, todo_lst_id) ==
    IF lists = <<>> THEN None ELSE lists[1]

Session_find_list(lists, todo_lst_id) == find_todo_list_by_id(todo_lst_id, lists)

Session_update_list(lists, list_id, title) ==
    LET lst == Session_find_list(lists, list_id)
    IN  IF lst # None THEN with_list(lists, [lst EXCEPT !.title = title]) ELSE lists

\* delete_list with the comparison inverted
Session_delete_list_Inverted(lists, list_id) ==
    IF lists = <<>> THEN <<>>
    ELSE SelectSeq(lists, LAMBDA lst : lst.id = list_id)

Session_delete_list(lists, list_id) == without_id(list_id, lists)

\* create_todo, delete_todo and mark_all_todos_completed are handed the list,
\* update_todo_status the todo: objects of the session, named here by their ids
Session_create_todo(lists, list_id, id, todo_title) ==
    LET todo_list == Session_find_list(lists, list_id)
    IN  with_list(lists, [todo_list EXCEPT !.todos = Append(@, new_todo(id, todo_title))])

\* a delete_todo that takes the todo out of whichever list holds it
Session_delete_todo_AnyList(lists, list_id, todo_id) ==
    [i \in 1..Len(lists) |-> [lists[i] EXCEPT !.todos = without_id(todo_id, @)]]

Session_delete_todo(lists, list_id, todo_id) ==
    LET todo_list == Session_find_list(lists, list_id)
    IN  with_list(lists, [todo_list EXCEPT !.todos = without_id(todo_id, @)])

Session_update_todo_status(lists, list_id, todo_id, is_completed) ==
    LET todo_list == Session_find_list(lists, list_id)
        todo == find_todo_by_id(todo_id, todo_list)
    IN  with_list(lists,
            [todo_list EXCEPT !.todos = with_todo(@, [todo EXCEPT !.completed = is_completed])])

Session_mark_all_todos_completed(lists, list_id) ==
    LET todo_list == Session_find_list(lists, list_id)
    IN  with_list(lists,
            [todo_list EXCEPT !.todos =
                [i \in 1..Len(@) |-> [@[i] EXCEPT !.completed = TRUE]]])

-----------------------------------------------------------------------------
(* todos/database_persistence.py: the statements and the tables they act on.
   The tables are
       lists(id PRIMARY KEY, title UNIQUE NOT NULL)
       todos(id PRIMARY KEY, title NOT NULL, completed NOT NULL DEFAULT false,
             list_id NOT NULL REFERENCES lists(id) ON DELETE CASCADE)
   with ids drawn from sequences. A SELECT without ORDER BY returns the rows
   in storage order, and an UPDATE may leave the row in place or store the
   new version after the other rows. *)

Statement(kind, title, id, list_id, completed) ==
    [kind |-> kind, title |-> title, id |-> id, list_id |-> list_id, completed |-> completed]

\* the statement of each method
Insert_list(title) == Statement("INSERT INTO lists", title, NoId, NoId, FALSE)
Update_list(list_id, new_title) == Statement("UPDATE lists", new_title, list_id, NoId, FALSE)
Delete_list(list_id) == Statement("DELETE from lists", <<>>, list_id, NoId, FALSE)
Insert_todo(todo_title, todo_list_id) ==
    Statement("INSERT INTO todos", todo_title, NoId, todo_list_id, FALSE)
Delete_todo(todo_id, todo_list_id) ==
    Statement("DELETE FROM todos", <<>>, todo_id, todo_list_id, FALSE)
Update_todo(todo_id, todo_list_id, is_completed) ==
    Statement("UPDATE todos", <<>>, todo_id, todo_list_id, is_completed)
Select_lists == Statement("SELECT * FROM lists", <<>>, NoId, NoId, FALSE)
Select_list(todo_list_id) ==
    Statement("SELECT * FROM lists WHERE id", <<>>, todo_list_id, NoId, FALSE)
Select_todos(todo_list_id) ==
    Statement("SELECT * FROM todos WHERE list_id", <<>>, NoId, todo_list_id, FALSE)

list_row(id, title) == [id |-> id, title |-> title]
todo_row(id, title, list_id) ==
    [id |-> id, title |-> title, completed |-> FALSE, list_id |-> list_id]

\* UNIQUE (title) on lists, REFERENCES lists(id) on todos
violates_constraint(stmt) ==
    CASE stmt.kind = "INSERT INTO lists" ->
            \E i \in 1..Len(dbLists) : dbLists[i].title = stmt.title
      [] stmt.kind = "UPDATE lists" ->
            /\ \E i \in 1..Len(dbLists) : dbLists[i].id = stmt.id
            /\ \E i \in 1..Len(dbLists) :
                  dbLists[i].id # stmt.id /\ dbLists[i].title = stmt.title
      [] stmt.kind = "INSERT INTO todos" ->
            ~\E i \in 1..Len(dbLists) : dbLists[i].id = stmt.list_id
      [] OTHER -> FALSE

\* an id that is no integer, such as the uuid4 token of the session provider:
\* the model names it by a number no sequence gives
IllFormedId == NoId - 1

\* the statement binds a value its integer column refuses
invalid_input(stmt) == stmt.id = IllFormedId \/ stmt.list_id = IllFormedId

\* the class of the error cursor.execute raises for the statement itself
statement_error(stmt) ==
    IF invalid_input(stmt) THEN "DataError"
    ELSE IF violates_constraint(stmt) THEN "IntegrityError"
    ELSE "none"

\* sys.exit(1) is reached: _database_connect catches OperationalError,
\* _database_cursor InterfaceError; execute_query catches the others it names
\* and lets the rest end the process
exits(c) ==
    \/ c.exc \in {"OperationalError", "InterfaceError"}
    \/ c.op = "execute_query" /\ c.exc # "none"

\* ON DELETE CASCADE: the todos left once the list row is deleted
on_delete_cascade(list_id, todos) == SelectSeq(todos, LAMBDA t : t.list_id # list_id)

\* the rows after an UPDATE of those matching, kept in place or stored anew at the end
retitled(rows, id, title) ==
    [i \in 1..Len(rows) |-> IF rows[i].id = id THEN [rows[i] EXCEPT !.title = title] ELSE rows[i]]
restatused(rows, id, list_id, completed) ==
    [i \in 1..Len(rows) |->
        IF rows[i].id = id /\ rows[i].list_id = list_id
        THEN [rows[i] EXCEPT !.completed = completed] ELSE rows[i]]
moved_to_end(rows, changed) ==
    SelectSeq(changed, LAMBDA r : r \in {rows[i] : i \in 1..Len(rows)})
    \o SelectSeq(changed, LAMBDA r : r \notin {rows[i] : i \in 1..Len(rows)})

\* the rows a SELECT returns from the tables
fetch_from(stmt, lists, todos) ==
    CASE stmt.kind = "SELECT * FROM lists" -> lists
      [] stmt.kind = "SELECT * FROM lists WHERE id" ->
            SelectSeq(lists, LAMBDA r : r.id = stmt.id)
      [] stmt.kind = "SELECT * FROM todos WHERE list_id" ->
            SelectSeq(todos, LAMBDA t : t.list_id = stmt.list_id)
      [] OTHER -> <<>>

fetch(stmt) == fetch_from(stmt, dbLists, dbTodos)

\* cursor.execute(query, args) in autocommit: the statement takes effect, or
\* violates a constraint and changes no row (a sequence keeps its advance)
execute(stmt) ==
    CASE stmt.kind = "INSERT INTO lists" ->
            /\ listSeq' = listSeq + 1
            /\ dbLists' = IF violates_constraint(stmt) THEN dbLists
                          ELSE Append(dbLists, list_row(listSeq, stmt.title))
            /\ UNCHANGED <<dbTodos, todoSeq>>
      [] stmt.kind = "UPDATE lists" ->
            /\ \/ violates_constraint(stmt) /\ dbLists' = dbLists
               \/ /\ ~violates_constraint(stmt)
                  /\ \/ dbLists' = retitled(dbLists, stmt.id, stmt.title)
                     \/ dbLists' = moved_to_end(dbLists, retitled(dbLists, stmt.id, stmt.title))
            /\ UNCHANGED <<dbTodos, listSeq, todoSeq>>
      [] stmt.kind = "DELETE from lists" ->
            /\ dbLists' = SelectSeq(dbLists, LAMBDA r : r.id # stmt.id)
            /\ dbTodos' = on_delete_cascade(stmt.id, dbTodos)
            /\ UNCHANGED <<listSeq, todoSeq>>
      [] stmt.kind = "INSERT INTO todos" ->
            /\ todoSeq' = todoSeq + 1
            /\ dbTodos' = IF violates_constraint(stmt) THEN dbTodos
                          ELSE Append(dbTodos, todo_row(todoSeq, stmt.title, stmt.list_id))
            /\ UNCHANGED <<dbLists, listSeq>>
      [] stmt.kind = "DELETE FROM todos" ->
            /\ dbTodos' = SelectSeq(dbTodos,
                              LAMBDA t : ~(t.id = stmt.id /\ t.list_id = stmt.list_id))
            /\ UNCHANGED <<dbLists, listSeq, todoSeq>>
      [] stmt.kind = "UPDATE todos" ->
            /\ \/ dbTodos' = restatused(dbTodos, stmt.id, stmt.list_id, stmt.completed)
               \/ dbTodos' = moved_to_end(dbTodos,
                                 restatused(dbTodos, stmt.id, stmt.list_id, stmt.completed))
            /\ UNCHANGED <<dbLists, listSeq, todoSeq>>
      [] OTHER -> UNCHANGED <<dbLists, dbTodos, listSeq, todoSeq>>

\* dict(row) of a todos row, and of a lists row with lst.setdefault('todos', todos)
todo_dict(row) == row
list_dict(row, todos) == [id |-> row.id, title |-> row.title, todos |-> todos]

\* what all_lists() and find_list() return when no statement fails and nothing
\* happens between their statements
all_lists_from(lists, todos) ==
    [i \in 1..Len(lists) |->
        list_dict(lists[i], fetch_from(Select_todos(lists[i].id), lists, todos))]

find_list_from(lists, todos, todo_list_id) ==
    LET rows == fetch_from(Select_list(todo_list_id), lists, todos)
    IN  IF invalid_input(Select_list(todo_list_id)) \/ rows = <<>> THEN None
        ELSE list_dict(rows[1], fetch_from(Select_todos(todo_list_id), lists, todos))

Db_all_lists == all_lists_from(dbLists, dbTodos)
Db_find_list(todo_list_id) == find_list_from(dbLists, dbTodos, todo_list_id)

\* mark_all_todos_completed: pass
Db_mark_all_todos_completed == UNCHANGED <<dbLists, dbTodos, listSeq, todoSeq>>

-----------------------------------------------------------------------------
(* The two providers side by side: every operation of the contract is applied
   to SessionPersistence and to DatabasePersistence, the statements of the
   latter succeeding unless they violate a constraint. The caller validates
   the titles first, hands the session provider objects it has found, and
   the uuid4 token of a list or todo is named by the value the database
   sequence gives the same list or todo. *)

PairListTitles == {TitleEmpty, TitleA, TitleUpperA}
PairTodoTitles == {TitleEmpty, TitleUpperB}
PairIds == 1..MaxRows

InitPair ==
    /\ store = <<>>
    /\ dbLists = <<>> /\ dbTodos = <<>> /\ listSeq = 1 /\ todoSeq = 1
    /\ last = NoRequest
    /\ UtilIdle /\ AppIdle /\ ConnIdle

\* uout and call hold what the two providers returned to a find_list until
\* the next operation
PairFrame ==
    /\ uout' = <<>> /\ call' = NoOperation
    /\ UNCHANGED <<uin, appVars, pc, connection, openConns, proc, snapshots>>

\* delete_todo leaves its arguments in call
PairFrameOf(c) ==
    /\ uout' = <<>> /\ call' = [c EXCEPT !.returned = TRUE]
    /\ UNCHANGED <<uin, appVars, pc, connection, openConns, proc, snapshots>>

Created == (listSeq - 1) + (todoSeq - 1)

ValidListTitle(title) ==
    /\ error_for_list_title(title, Session_all_lists(store)) = NoError
    /\ error_for_list_title(title, Db_all_lists) = NoError

Pair_all_lists ==
    /\ last' = Response("all_lists", "ok", NoId, NoError)
    /\ UNCHANGED storeVars
    /\ PairFrame

Pair_find_list(list_id) ==
    LET lst == Db_find_list(list_id)
    IN  /\ proc = "running"
        /\ last' = Response("find_list",
                             IF Session_find_list(store, list_id) = None THEN "absent"
                             ELSE "found",
                             list_id, NoError)
        /\ uout' = <<Session_find_list(store, list_id)>>
        /\ call' = [Operation("find_list", <<>>, list_id, NoId, FALSE) EXCEPT
                        !.exc = statement_error(Select_list(list_id)),
                        !.raised_at = IF statement_error(Select_list(list_id)) = "none"
                                      THEN "none" ELSE "execute",
                        !.result = IF lst = None THEN <<>> ELSE <<lst>>,
                        !.returned = TRUE]
        /\ proc' = IF exits(call') THEN "exited" ELSE proc
        /\ UNCHANGED storeVars
        /\ UNCHANGED <<uin, appVars, pc, connection, openConns, snapshots>>

Pair_create_list(title) ==
    /\ ValidListTitle(title)
    /\ Len(store) < MaxLists /\ Created < MaxRows
    /\ store' = Session_create_list(store, listSeq, title)
    /\ execute(Insert_list(title))
    /\ last' = Response("create_list", "ok", listSeq, NoError)
    /\ PairFrame

Pair_update_list(list_id, title) ==
    /\ ValidListTitle(title)
    /\ store' = Session_update_list(store, list_id, title)
    /\ execute(Update_list(list_id, title))
    /\ last' = Response("update_list",
                         IF Session_find_list(store, list_id) = None THEN "absent" ELSE "found",
                         list_id, NoError)
    /\ PairFrame

Pair_delete_list(list_id) ==
    /\ store' = Session_delete_list(store, list_id)
    /\ execute(Delete_list(list_id))
    /\ last' = Response("delete_list",
                         IF Session_find_list(store, list_id) = None THEN "absent"
                         ELSE IF Session_find_list(store, list_id).todos = <<>> THEN "found"
                         ELSE "found with todos",
                         list_id, NoError)
    /\ PairFrame

Pair_create_todo(list_id, title) ==
    /\ Session_find_list(store, list_id) # None
    /\ error_for_todo(title) = NoError
    /\ Len(Session_find_list(store, list_id).todos) < MaxTodos /\ Created < MaxRows
    /\ store' = Session_create_todo(store, list_id, todoSeq, title)
    /\ execute(Insert_todo(title, list_id))
    /\ last' = Response("create_todo", "ok", list_id, NoError)
    /\ PairFrame

Pair_delete_todo(list_id, todo_id) ==
    /\ Session_find_list(store, list_id) # None
    /\ store' = Session_delete_todo(store, list_id, todo_id)
    /\ execute(Delete_todo(todo_id, list_id))
    /\ last' = Response("delete_todo",
                         IF find_todo_by_id(todo_id, Session_find_list(store, list_id)) = None
                         THEN "absent" ELSE "found",
                         list_id, NoError)
    /\ PairFrameOf(Operation("delete_todo", <<>>, list_id, todo_id, FALSE))

Pair_update_todo_status(list_id, todo_id, is_completed) ==
    /\ Session_find_list(store, list_id) # None
    /\ find_todo_by_id(todo_id, Session_find_list(store, list_id)) # None
    /\ store' = Session_update_todo_status(store, list_id, todo_id, is_completed)
    /\ execute(Update_todo(todo_id, list_id, is_completed))
    /\ last' = Response("update_todo_status", "ok", list_id, NoError)
    /\ PairFrame

Pair_mark_all_todos_completed(list_id) ==
    /\ Session_find_list(store, list_id) # None
    /\ store' = Session_mark_all_todos_completed(store, list_id)
    /\ Db_mark_all_todos_completed
    /\ last' = Response("mark_all_todos_completed", "ok", list_id, NoError)
    /\ PairFrame

NextPair ==
    \/ Pair_all_lists
    \/ \E list_id \in PairIds \cup {IllFormedId} : Pair_find_list(list_id)
    \/ \E title \in PairListTitles : Pair_create_list(title)
    \/ \E list_id \in PairIds, title \in PairListTitles : Pair_update_list(list_id, title)
    \/ \E list_id \in PairIds : Pair_delete_list(list_id)
    \/ \E list_id \in PairIds, title \in PairTodoTitles : Pair_create_todo(list_id, title)
    \/ \E list_id \in PairIds, todo_id \in PairIds : Pair_delete_todo(list_id, todo_id)
    \/ \E list_id \in PairIds, todo_id \in PairIds, is_completed \in BOOLEAN :
          Pair_update_todo_status(list_id, todo_id, is_completed)
    \/ \E list_id \in PairIds : Pair_mark_all_todos_completed(list_id)

SpecPair == InitPair /\ [][NextPair]_vars

-----------------------------------------------------------------------------
(* DatabasePersistence, one unit of work at a time: _database_connect obtains
   the connection, the body of the with block executes the statement, the
   finally block closes the connection, and the exception raised, if any,
   reaches the handler that catches it. all_lists and find_list run one unit
   for the lists and one for the todos of each list. execute_query is
   DbConnection.execute_query of expense/classes.py, whose context managers
   are the same. *)

DbListTitles == {TitleA, TitleUpperA}
DbTodoTitles == {TitleUpperB}
DbIds == 1..MaxDbRows

\* classes of psycopg2 errors: IntegrityError and InternalError are
\* DatabaseErrors that are no OperationalError; InterfaceError is no DatabaseError
ExecutionErrors == {"OperationalError", "InterfaceError", "InternalError"}

InitDb ==
    /\ dbLists = <<>> /\ dbTodos = <<>> /\ listSeq = 1 /\ todoSeq = 1
    /\ call = NoOperation /\ pc = "idle" /\ connection = "None" /\ openConns = 0
    /\ proc = "running" /\ snapshots = {}
    /\ store = <<>>
    /\ last = NoRequest
    /\ UtilIdle /\ AppIdle

DbFrame == UNCHANGED <<utilVars, appVars, store, last>>
tables == <<dbLists, dbTodos, listSeq, todoSeq>>

\* the query of the unit of work in progress
query(c) ==
    IF c.unit = "todos"
    THEN Select_todos(IF c.op = "find_list" THEN c.list_id ELSE c.rows[c.k].id)
    ELSE CASE c.op = "all_lists" -> Select_lists
           [] c.op = "find_list" -> Select_list(c.list_id)
           [] c.op = "create_list" -> Insert_list(c.title)
           [] c.op = "update_list" -> Update_list(c.list_id, c.title)
           [] c.op = "delete_list" -> Delete_list(c.list_id)
           [] c.op = "create_todo" -> Insert_todo(c.title, c.list_id)
           [] c.op = "delete_todo" -> Delete_todo(c.todo_id, c.list_id)
           [] c.op = "update_todo_status" -> Update_todo(c.todo_id, c.list_id, c.completed)
           [] OTHER -> Statement("expense", <<>>, NoId, NoId, FALSE)

\* the methods that read: all_lists and find_list
Reads == {"all_lists", "find_list"}

\* a method is called: it enters its with block
Enter(c) ==
    /\ pc = "idle" /\ proc = "running"
    /\ call' = c
    /\ pc' = "connect"
    /\ snapshots' = IF c.op \in Reads THEN {<<dbLists, dbTodos>>} ELSE {}
    /\ UNCHANGED <<connection, openConns, proc, tables>>
    /\ DbFrame

Db_all_lists_called == Enter(Operation("all_lists", <<>>, NoId, NoId, FALSE))
Db_find_list_called(todo_list_id) ==
    Enter(Operation("find_list", <<>>, todo_list_id, NoId, FALSE))
Db_create_list(title) ==
    /\ (listSeq - 1) + (todoSeq - 1) < MaxDbRows
    /\ Enter(Operation("create_list", title, NoId, NoId, FALSE))
Db_update_list(list_id, new_title) ==
    Enter(Operation("update_list", new_title, list_id, NoId, FALSE))
Db_delete_list(list_id) == Enter(Operation("delete_list", <<>>, list_id, NoId, FALSE))
Db_create_todo(todo_title, todo_list_id) ==
    /\ (listSeq - 1) + (todoSeq - 1) < MaxDbRows
    /\ Enter(Operation("create_todo", todo_title, todo_list_id, NoId, FALSE))
Db_delete_todo(todo_id, todo_list_id) ==
    Enter(Operation("delete_todo", <<>>, todo_list_id, todo_id, FALSE))
Db_update_todo_status(todo_id, todo_list_id, is_completed) ==
    Enter(Operation("update_todo_status", <<>>, todo_list_id, todo_id, is_completed))
Expense_execute_query == Enter(Operation("execute_query", <<>>, NoId, NoId, FALSE))

\* mark_all_todos_completed: pass
Db_mark_all_todos_completed_called(list_id) ==
    /\ pc = "idle" /\ proc = "running"
    /\ call' = [Operation("mark_all_todos_completed", <<>>, list_id, NoId, FALSE)
                    EXCEPT !.returned = TRUE]
    /\ Db_mark_all_todos_completed
    /\ UNCHANGED <<pc, connection, openConns, proc, snapshots>>
    /\ DbFrame

\* connection = connect(dbname=self.dbname): the connection, or OperationalError
\* with connection still None
Connect ==
    /\ pc = "connect"
    /\ \/ /\ connection' = "connection"
          /\ openConns' = openConns + 1
          /\ pc' = "execute"
          /\ call' = [call EXCEPT !.exc = "none", !.raised_at = "none", !.fetched = <<>>]
       \/ /\ call' = [call EXCEPT !.exc = "OperationalError", !.raised_at = "connect",
                                   !.fetched = <<>>]
          /\ pc' = "finally"
          /\ UNCHANGED <<connection, openConns>>
    /\ UNCHANGED <<proc, tables, snapshots>>
    /\ DbFrame

\* the body of the with block: the statement runs, and is refused when it
\* violates a constraint, or an error is raised before it takes effect
Execute ==
    /\ pc = "execute"
    /\ \/ /\ execute(query(call))
          /\ call' = IF statement_error(query(call)) # "none"
                      THEN [call EXCEPT !.exc = statement_error(query(call)),
                                        !.raised_at = "execute"]
                      ELSE [call EXCEPT !.fetched = fetch(query(call))]
       \/ \E exc \in ExecutionErrors :
             /\ call' = [call EXCEPT !.exc = exc, !.raised_at = "execute"]
             /\ UNCHANGED tables
    /\ pc' = "finally"
    /\ UNCHANGED <<connection, openConns, proc, snapshots>>
    /\ DbFrame

\* the number of open connections after a finally block that is skipped when the
\* process is exiting
close_connection_UnlessExiting(c) ==
    IF connection # "None" /\ ~exits(c) THEN openConns - 1 ELSE openConns

\* finally: if connection: connection.close()
close_connection(c) ==
    IF connection # "None" THEN openConns - 1 ELSE openConns

\* the method goes on after a unit that did not end the process: the
\* DatabaseError, if any, is logged by the method
resume(c) ==
    LET failed == c.exc # "none"
        return(value) == /\ call' = [c EXCEPT !.result = value, !.returned = TRUE]
                         /\ pc' = "idle"
        todos_unit(rows) == /\ call' = [c EXCEPT !.unit = "todos", !.rows = rows, !.k = 1]
                            /\ pc' = "connect"
        todos == IF failed THEN <<>> ELSE [i \in 1..Len(c.fetched) |-> todo_dict(c.fetched[i])]
    IN  CASE c.op = "all_lists" /\ c.unit = "main" ->
                IF failed \/ c.fetched = <<>> THEN return(<<>>) ELSE todos_unit(c.fetched)
          [] c.op = "all_lists" /\ c.unit = "todos" ->
                IF c.k = Len(c.rows)
                THEN return(Append(c.result, list_dict(c.rows[c.k], todos)))
                ELSE /\ call' = [c EXCEPT !.result = Append(@, list_dict(c.rows[c.k], todos)),
                                         !.k = @ + 1]
                     /\ pc' = "connect"
          [] c.op = "find_list" /\ c.unit = "main" ->
                IF failed \/ c.fetched = <<>> THEN return(<<>>) ELSE todos_unit(c.fetched)
          [] c.op = "find_list" /\ c.unit = "todos" ->
                return(<<list_dict(c.rows[1], todos)>>)
          [] OTHER -> return(<<>>)

\* the finally block of _database_connect, then the handler of the exception
Finally ==
    /\ pc = "finally"
    /\ openConns' = close_connection(call)
    /\ connection' = "None"
    /\ IF exits(call)
       THEN /\ proc' = "exited"
            /\ pc' = "exited"
            /\ call' = call
       ELSE /\ proc' = proc
            /\ resume(call)
    /\ snapshots' = IF pc' = "idle" THEN {} ELSE snapshots
    /\ UNCHANGED tables
    /\ DbFrame

NextDb ==
    \/ Db_all_lists_called
    \/ \E id \in DbIds \cup {IllFormedId} : Db_find_list_called(id)
    \/ \E title \in DbListTitles : Db_create_list(title)
    \/ \E id \in DbIds, title \in DbListTitles : Db_update_list(id, title)
    \/ \E id \in DbIds : Db_delete_list(id)
    \/ \E id \in DbIds, title \in DbTodoTitles : Db_create_todo(title, id)
    \/ \E id \in DbIds, list_id \in DbIds : Db_delete_todo(id, list_id)
    \/ \E id \in DbIds, list_id \in DbIds, is_completed \in BOOLEAN :
          Db_update_todo_status(id, list_id, is_completed)
    \/ \E id \in DbIds : Db_mark_all_todos_completed_called(id)
    \/ Expense_execute_query
    \/ Connect
    \/ Execute
    \/ Finally

SpecDb == InitDb /\ [][NextDb]_vars

-----------------------------------------------------------------------------
(* Requests that interleave: while one request reads through all_lists() or
   find_list(), each unit of work on a connection of its own in autocommit,
   the statements of the other requests execute on the same tables, one at a
   time, before, between and after its statements. *)

RaceTitles == {TitleA, TitleUpperA}

\* the statements of the mutating methods, as other requests issue them
OtherStatements ==
    {Insert_list(title) : title \in RaceTitles}
    \cup {Update_list(id, title) : id \in DbIds, title \in RaceTitles}
    \cup {Delete_list(id) : id \in DbIds}
    \cup {Insert_todo(TitleUpperB, id) : id \in DbIds}
    \cup {Delete_todo(id, list_id) : id \in DbIds, list_id \in DbIds}

\* a statement of another request executes
Other_request(stmt) ==
    /\ proc = "running"
    /\ stmt.kind \in {"INSERT INTO lists", "INSERT INTO todos"} =>
           (listSeq - 1) + (todoSeq - 1) < MaxDbRows
    /\ Cardinality(snapshots) <= MaxRaces
    /\ execute(stmt)
    /\ snapshots' = IF pc = "idle" THEN snapshots
                    ELSE snapshots \cup {<<dbLists', dbTodos'>>}
    /\ UNCHANGED <<call, pc, connection, openConns, proc>>
    /\ DbFrame

NextRace ==
    \/ Db_all_lists_called
    \/ \E id \in DbIds : Db_find_list_called(id)
    \/ Connect
    \/ Execute
    \/ Finally
    \/ \E stmt \in OtherStatements : Other_request(stmt)

SpecRace == InitDb /\ [][NextRace]_vars

-----------------------------------------------------------------------------
(* Properties of the utilities, under SpecUtil *)

\* C5: error_for_list_title returns the uniqueness error when some existing list
\* has exactly the title, else the length error when the length is outside
\* [1, 100], else no error; a duplicate that is also out of range yields the
\* uniqueness error.
C5_ErrorForListTitle ==
    (uin.fn = "error_for_list_title" /\ uout # <<>>) =>
        LET duplicate == \E i \in 1..Len(uin.lists) : uin.lists[i].title = uin.title
            outside == Len(uin.title) < 1 \/ Len(uin.title) > 100
        IN  /\ duplicate => uout[1] = "Title must be unique."
            /\ (~duplicate /\ outside) =>
                    uout[1] = "Title must be between 1 and 100 characters."
            /\ (~duplicate /\ ~outside) => uout[1] = NoError

\* a duplicate title that is also too long got the uniqueness error
C5_Witness ==
    /\ uin.fn = "error_for_list_title" /\ uout # <<>>
    /\ Len(uin.title) > 100
    /\ \E i \in 1..Len(uin.lists) : uin.lists[i].title = uin.title
    /\ uout[1] = ErrUnique

\* C6: is_list_completed is true iff the list has at least one todo and every
\* todo is completed (false for no todos); equivalently iff the list is
\* non-empty and todos_remaining, the number of todos not completed, is 0.
C6_IsListCompleted ==
    (uin.fn = "is_list_completed" /\ uout # <<>>) =>
        LET todos == uin.items
            allDone == \A i \in 1..Len(todos) : todos[i].completed = TRUE
        IN  /\ uout[1].completed = (Len(todos) >= 1 /\ allDone)
            /\ uout[1].remaining = Cardinality({i \in 1..Len(todos) : todos[i].completed = FALSE})
            /\ uout[1].completed = (Len(todos) # 0 /\ uout[1].remaining = 0)
            /\ (Len(todos) = 0) => (uout[1].completed = FALSE)

\* the list without todos was found not completed
C6_Witness ==
    /\ uin.fn = "is_list_completed" /\ uout # <<>>
    /\ uin.items = <<>>
    /\ uout[1].completed = FALSE

\* position of the item with this id in the arguments of the call
OriginalIndex(id) == CHOOSE i \in 1..Len(uin.items) : uin.items[i].id = id

\* C7: sort_items applied to its own result returns it unchanged; in the result
\* the items not satisfying the predicate precede those satisfying it, each
\* group ascending by lower-cased title, equal keys in their original order.
C7_SortItems ==
    (uin.fn = "sort_items" /\ uout # <<>>) =>
        LET r == uout[1]
            sel(x) == select(uin.select_completed, x)
        IN  /\ Len(r) = Len(uin.items)
            /\ \A k \in 1..Len(uin.items) : \E i \in 1..Len(r) : r[i] = uin.items[k]
            /\ \A i, j \in 1..Len(r) :
                   i < j =>
                     /\ ~(sel(r[i]) /\ ~sel(r[j]))
                     /\ (sel(r[i]) = sel(r[j])) =>
                            /\ ~str_less(lower(r[j].title), lower(r[i].title))
                            /\ (lower(r[i].title) = lower(r[j].title)) =>
                                   OriginalIndex(r[i].id) < OriginalIndex(r[j].id)
            /\ (Len(uout) = 2) => (uout[2] = uout[1])

\* sort_items was applied twice to items with two titles equal ignoring case, given
\* out of order, of which one satisfies the predicate
C7_Witness ==
    /\ uin.fn = "sort_items" /\ Len(uout) = 2
    /\ \E i, j \in 1..Len(uin.items) :
          /\ i < j
          /\ uin.items[i].title # uin.items[j].title
          /\ lower(uin.items[i].title) = lower(uin.items[j].title)
          /\ select(uin.select_completed, uin.items[i]) = select(uin.select_completed, uin.items[j])
    /\ \E i \in 1..Len(uin.items) : select(uin.select_completed, uin.items[i])
    /\ uout[1] # uin.items

-----------------------------------------------------------------------------
(* Properties of the request handlers, under SpecApp *)

\* C1: after complete_all_todos on a list every todo of the list has
\* completed = TRUE whatever its flag was, and the number, order, ids and
\* titles of its todos are as before.
C1_MarkAllCompleted ==
    [][(last'.op = "complete_all_todos" /\ last'.status = "302") =>
          LET before == find_todo_list_by_id(last'.list_id, session)
              after == find_todo_list_by_id(last'.list_id, session')
          IN  /\ Len(after.todos) = Len(before.todos)
              /\ \A i \in 1..Len(after.todos) :
                    /\ after.todos[i].completed = TRUE
                    /\ after.todos[i].id = before.todos[i].id
                    /\ after.todos[i].title = before.todos[i].title]_vars

\* C4: no two stored lists have the same title and every stored title has a
\* length between 1 and 100.
C4_TitlesUniqueAndBounded ==
    /\ \A i, j \in 1..Len(session) : i # j => session[i].title # session[j].title
    /\ \A i \in 1..Len(session) : Len(session[i].title) >= 1 /\ Len(session[i].title) <= 100

\* two lists are stored, one renamed by an accepted update_list to a title of the
\* greatest length allowed
C4_Witness ==
    /\ Len(session) = 2
    /\ last.op = "update_list" /\ last.status = "302"
    /\ Len(find_todo_list_by_id(last.list_id, session).title) = 100

\* C8: a create_list, update_list or create_todo request whose title fails
\* validation stores nothing: the lists, their titles and their todos are as
\* before the request.
C8_RefusedTitleStoresNothing ==
    [][(last'.error # NoError /\ last'.op \in {"create_list", "update_list", "create_todo"})
          => session' = session]_vars

\* a create_list with the title of an existing list was refused
C8_Witness ==
    /\ last.op = "create_list" /\ last.error = ErrUnique
    /\ Len(session) >= 1

-----------------------------------------------------------------------------
(* Properties of the two providers, under SpecPair *)

Range(seq) == {seq[i] : i \in 1..Len(seq)}
TodoIds(lists) == UNION {{t.id : t \in Range(l.todos)} : l \in Range(lists)}

\* what a caller sees of the lists returned: every list with its title and its
\* todos (id, title, completed), in no particular order
Seen(lists) ==
    {[id |-> l.id, title |-> l.title,
      todos |-> {[id |-> t.id, title |-> t.title, completed |-> t.completed] :
                    t \in Range(l.todos)}] : l \in Range(lists)}

\* delete_list(id) on lists, seen through find_list and all_lists before and after
Deleted(id, before, after, found_after) ==
    /\ found_after = None
    /\ \A l \in Range(after) : l.id # id
    /\ \A l \in Range(before) :
          IF l.id = id THEN TodoIds(<<l>>) \cap TodoIds(after) = {}
          ELSE l \in Range(after)
    /\ Len(after) = Len(before) - 1

\* C2: under both providers, after delete_list(id) on an existing list
\* find_list(id) returns None, all_lists() has no list of that id and no todo
\* that belonged to it, no row of its todos is left to appear later, and the
\* other lists are as they were.
C2_DeleteListCascades ==
    [][(last'.op = "delete_list" /\ last'.status # "absent") =>
          /\ Deleted(last'.list_id, Session_all_lists(store), Session_all_lists(store'),
                     Session_find_list(store', last'.list_id))
          /\ Deleted(last'.list_id, Db_all_lists, all_lists_from(dbLists', dbTodos'),
                     find_list_from(dbLists', dbTodos', last'.list_id))
          /\ \A t \in Range(dbTodos') : t.list_id # last'.list_id
                                         /\ \E r \in Range(dbLists') : r.id = t.list_id]_vars

\* a list that had todos was deleted and another list with a todo is left
C2_Witness ==
    /\ last.op = "delete_list" /\ last.status = "found with todos"
    /\ \E l \in Range(store) : l.todos # <<>>
    /\ dbTodos # <<>>

\* C3: after the same operations, with validated titles, all_lists() of the
\* two providers return the same lists with the same titles and the same todos.
C3_ProvidersAgree == Seen(Session_all_lists(store)) = Seen(Db_all_lists)

-----------------------------------------------------------------------------
(* Properties of the database provider, under SpecDb *)

\* C9: an error raised while the statement executes on an established
\* connection lets the process continue, all_lists then returning the empty
\* sequence and find_list None; only a failure to obtain the connection
\* terminates the process.
C9_StatementFailureIsNotFatal ==
    (call.op # "execute_query") =>
        /\ (call.raised_at = "execute") => proc = "running"
        /\ (proc = "exited") => call.raised_at = "connect"
        /\ (call.raised_at = "execute" /\ call.unit = "main" /\ call.returned) =>
               call.result = <<>>

\* C10: a unit of work holds at most one open connection, and none is open
\* once the operation has returned or the process has exited, whether the
\* unit ended normally, by a statement failure or by sys.exit.
C10_ConnectionsClosed ==
    /\ openConns <= 1
    /\ openConns = (IF connection = "None" THEN 0 ELSE 1)
    /\ (pc = "idle" \/ proc = "exited") => openConns = 0

\* the process has exited on an error raised after the connection was obtained
C10_Witness ==
    /\ proc = "exited"
    /\ call.op = "create_list" /\ call.exc = "OperationalError" /\ call.raised_at = "execute"
    /\ openConns = 0

\* C11: find_list(id) of either provider returns the list whose id is the
\* argument when the store holds one and None otherwise, also on an empty store
\* and for an id the backend cannot read as one of its ids; the call returns,
\* the process goes on and the stored data are what they were
C11_FindListAbsentOrFound ==
    [][(last'.op = "find_list") =>
          LET id == last'.list_id
              inSession == {i \in 1..Len(store) : store[i].id = id}
              inTables == {i \in 1..Len(dbLists) : dbLists[i].id = id}
          IN  /\ IF inSession = {} THEN uout' = <<None>>
                 ELSE \E i \in inSession : uout' = <<store[i]>>
              /\ IF inTables = {} THEN call'.result = <<>>
                 ELSE \E i \in inTables :
                         call'.result =
                             <<[id |-> id, title |-> dbLists[i].title,
                                todos |-> SelectSeq(dbTodos, LAMBDA t : t.list_id = id)]>>
              /\ call'.returned /\ proc' = "running"
              /\ store' = store /\ dbLists' = dbLists /\ dbTodos' = dbTodos
    ]_vars

C11_Witness ==
    /\ last.op = "find_list" /\ last.list_id = IllFormedId
    /\ store # <<>> /\ dbLists # <<>>
    /\ uout = <<None>>
    /\ call.returned /\ call.result = <<>> /\ call.exc = "DataError"
    /\ proc = "running"

\* the lists other than the addressed one are what they were
OthersKept(id, before, after) ==
    /\ \A l \in Range(before) : l.id # id => l \in Range(after)
    /\ \A l \in Range(after) : l.id # id => l \in Range(before)

\* the addressed list before and after, under either provider
Addressed(id, lists) == CHOOSE l \in Range(lists) : l.id = id

-----------------------------------------------------------------------------
(* Properties of the handlers that only read, under SpecApp *)

\* C14: handling get_lists or display_list leaves the stored lists and the
\* stored todos of every list as they were, in the same order.
C14_ReadsLeaveStoreUnchanged ==
    [][(last'.op \in {"get_lists", "display_list"} /\ last'.status = "200") =>
          session' = session]_vars

-----------------------------------------------------------------------------
(* Properties of the reads among interleaving requests, under SpecRace *)

\* C13: every list that all_lists() or find_list() returns is, with its todos,
\* a list of one of the contents the tables had during the call: none is
\* returned with the todos of another moment, or with none because the list
\* was deleted meanwhile or the query for its todos failed.
C13_NoPartiallyVisibleList ==
    [][(call'.returned /\ ~call.returned /\ call'.op \in Reads) =>
          \A i \in 1..Len(call'.result) :
              \E sn \in snapshots :
                  call'.result[i] \in Range(all_lists_from(sn[1], sn[2]))]_vars

====
